---- MODULE Spec2Model ----
(***************************************************************************)
(* gravity-lens: the ray/scene intersection and shading pipeline.          *)
(*                                                                         *)
(* f32 values are modelled as fixed-point numbers with Q units per 1.0,    *)
(* extended with the IEEE special values NaN, +Inf and -Inf.  A finite     *)
(* value whose magnitude exceeds FRange overflows to an infinity, as an    *)
(* f32 does beyond f32::MAX.  Every arithmetic operator follows the IEEE   *)
(* rules for the special values (Inf - Inf = NaN, 0 * Inf = NaN,           *)
(* x / 0 = Inf, 0 / 0 = NaN, sqrt of a negative = NaN, every comparison    *)
(* with NaN false).  Zero is unsigned.                                     *)
(***************************************************************************)
EXTENDS Integers, Sequences, FiniteSets, TLC

\* ------------------------------------------------------------------ f32
\* Units per 1.0 of the fixed-point representation of f32.
Q == 4096
\* Largest finite magnitude, in whole units.
FRange == 64

FMax == FRange * Q

NaN == [k |-> "nan", v |-> 0]
PInf == [k |-> "inf", v |-> 1]
NInf == [k |-> "inf", v |-> -1]
Fin(n) == [k |-> "fin", v |-> n]

IsNaN(a) == a.k = "nan"
IsInf(a) == a.k = "inf"

\* A raw result, overflowing to an infinity outside the finite range.
Mk(n) == IF n > FMax THEN PInf ELSE IF n < -FMax THEN NInf ELSE Fin(n)

\* The literal n/d.
Num(n, d) == Fin((n * Q) \div d)
Whole(n) == Fin(n * Q)
Zero == Fin(0)

AbsI(n) == IF n < 0 THEN -n ELSE n
SgnI(n) == IF n < 0 THEN -1 ELSE IF n > 0 THEN 1 ELSE 0
\* Sign of a non-NaN value; zero counts as positive zero.
SgnZ(a) == IF a.v < 0 THEN -1 ELSE 1
InfOf(s) == IF s < 0 THEN NInf ELSE PInf

FNeg(a) == IF IsNaN(a) THEN NaN ELSE [k |-> a.k, v |-> -a.v]

FAdd(a, b) ==
    IF IsNaN(a) \/ IsNaN(b) THEN NaN
    ELSE IF IsInf(a) /\ IsInf(b) THEN (IF a.v = b.v THEN a ELSE NaN)
    ELSE IF IsInf(a) THEN a
    ELSE IF IsInf(b) THEN b
    ELSE Mk(a.v + b.v)

FSub(a, b) == FAdd(a, FNeg(b))

\* x * y / Q, truncated, without leaving 32 bits (FRange * Q * Q < 2^31).
MulRaw(x, y) ==
    LET A == AbsI(x)
        B == AbsI(y)
    IN  SgnI(x) * SgnI(y) * (A * (B \div Q) + (A * (B % Q)) \div Q)

FMul(a, b) ==
    IF IsNaN(a) \/ IsNaN(b) THEN NaN
    ELSE IF IsInf(a) \/ IsInf(b)
         THEN (IF a.v = 0 \/ b.v = 0 THEN NaN ELSE InfOf(SgnI(a.v) * SgnI(b.v)))
    ELSE Mk(MulRaw(a.v, b.v))

FDiv(a, b) ==
    IF IsNaN(a) \/ IsNaN(b) THEN NaN
    ELSE IF IsInf(a) THEN (IF IsInf(b) THEN NaN ELSE InfOf(a.v * SgnZ(b)))
    ELSE IF IsInf(b) THEN Zero
    ELSE IF b.v = 0 THEN (IF a.v = 0 THEN NaN ELSE InfOf(SgnI(a.v)))
    ELSE Mk(SgnI(a.v) * SgnI(b.v) * ((AbsI(a.v) * Q) \div AbsI(b.v)))

RECURSIVE ISqrtIn(_, _, _)
\* Largest r in lo..hi with r*r <= n.
ISqrtIn(n, lo, hi) ==
    IF lo >= hi THEN lo
    ELSE LET mid == (lo + hi + 1) \div 2
         IN  IF mid * mid <= n THEN ISqrtIn(n, mid, hi) ELSE ISqrtIn(n, lo, mid - 1)

FSqrt(a) ==
    IF IsNaN(a) THEN NaN
    ELSE IF IsInf(a) THEN (IF a.v > 0 THEN PInf ELSE NaN)
    ELSE IF a.v < 0 THEN NaN
    ELSE Fin(ISqrtIn(a.v * Q, 0, 46340))

FAbs(a) == IF IsNaN(a) THEN NaN ELSE [k |-> a.k, v |-> AbsI(a.v)]

\* a < b; false when either is NaN.
FLt(a, b) ==
    IF IsNaN(a) \/ IsNaN(b) THEN FALSE
    ELSE IF IsInf(a) THEN (a.v < 0 /\ ~(IsInf(b) /\ b.v < 0))
    ELSE IF IsInf(b) THEN b.v > 0
    ELSE a.v < b.v

FGt(a, b) == FLt(b, a)
FGe(a, b) == ~IsNaN(a) /\ ~IsNaN(b) /\ ~FLt(a, b)

\* Float-to-u32 cast: truncates, saturates, NaN becomes 0.
\* u32::MAX, capped to the 32-bit signed range of the checker's integers.
U32Max == 2147483647
AsU32(a) ==
    IF IsNaN(a) THEN 0
    ELSE IF IsInf(a) THEN (IF a.v > 0 THEN U32Max ELSE 0)
    ELSE IF a.v < 0 THEN 0
    ELSE a.v \div Q

\* ----------------------------------------------------------------- Vec3
W3(x, y, z) == <<Whole(x), Whole(y), Whole(z)>>
VAdd(a, b) == <<FAdd(a[1], b[1]), FAdd(a[2], b[2]), FAdd(a[3], b[3])>>
VSub(a, b) == <<FSub(a[1], b[1]), FSub(a[2], b[2]), FSub(a[3], b[3])>>
VNeg(a) == <<FNeg(a[1]), FNeg(a[2]), FNeg(a[3])>>
VScale(a, s) == <<FMul(a[1], s), FMul(a[2], s), FMul(a[3], s)>>
VDivS(a, s) == <<FDiv(a[1], s), FDiv(a[2], s), FDiv(a[3], s)>>
VMul(a, b) == <<FMul(a[1], b[1]), FMul(a[2], b[2]), FMul(a[3], b[3])>>
Dot(a, b) == FAdd(FAdd(FMul(a[1], b[1]), FMul(a[2], b[2])), FMul(a[3], b[3]))
Cross(a, b) ==
    <<FSub(FMul(a[2], b[3]), FMul(b[2], a[3])),
      FSub(FMul(a[3], b[1]), FMul(b[3], a[1])),
      FSub(FMul(a[1], b[2]), FMul(b[1], a[2]))>>
LengthSquared(a) == Dot(a, a)
Length(a) == FSqrt(Dot(a, a))
\* glam: self * self.length().recip()
Normalize(a) == VScale(a, FDiv(Whole(1), Length(a)))
VZero == W3(0, 0, 0)

\* --------------------------------------------------------------- Option
None == [some |-> FALSE]
Some(x) == [some |-> TRUE, val |-> x]

\* ------------------------------------------------------------------ bounds
\* Largest output width and height drawn.
MaxWidth == 4
MaxHeight == 4
\* Calls of ProjectIter::next made after the first None.
MaxNone == 2

VARIABLES
    pc,         \* position of the driver
    cam,        \* ProjectIter.cam / scene.camera
    out,        \* ProjectIter.out: [width, height, escape]
    iter,       \* ProjectIter's cursor: [x, y]
    returned,   \* every value ProjectIter::next has returned, in order
    objects,    \* scene.objects: the Vec<Object>
    ray,        \* the ray Objects::intersect is called with
    maxT,       \* its max_t
    idx,        \* objects already scanned by Objects::intersect
    best,       \* min_by's accumulator: the nearest Inter so far
    results,    \* what intersect_in returned for each scanned object
    t,          \* MetaBalls::intersect_in's marching distance
    ret,        \* what Objects::intersect returned
    materials,  \* scene.materials: the Vec<Material>
    lights,     \* scene.lights: the Vec<Light>
    shaded,     \* outcome of the last Objects::color_at call
    file,       \* the HDR file at Hdri.path: None when it cannot be opened
    image,      \* Hdri.image: the RefCell<Option<Rgb32FImage>> cache
    loads,      \* calls of Hdri::load so far
    samples,    \* calls of Hdri::sample so far
    texel,      \* the (x, y) of the last get_pixel
    pixels,     \* the Vec<Pixel> render collects
    traced      \* for each collected pixel: the ray traced and what each
                \* object's intersect_in returned for it

projVars == <<cam, out, iter, returned>>
scanVars == <<objects, ray, maxT, idx, best, results, t, ret>>
shadeVars == <<materials, lights, shaded>>
hdriVars == <<file, image, loads, samples, texel>>
renderVars == <<pixels, traced>>
vars == <<pc, cam, out, iter, returned, objects, ray, maxT, idx, best, results, t, ret,
          materials, lights, shaded, file, image, loads, samples, texel, pixels, traced>>

\* ------------------------------------------------------------ ray.rs
Ray(pos, dir) == [pos |-> pos, dir |-> dir]
RayAt(r, tt) == VAdd(r.pos, VScale(r.dir, tt))

\* f32::tan on the field-of-view angles drawn: fov is given by name.
Tan(fov) ==
    CASE fov = "atan(1/2)" -> Num(1, 2)
      [] fov = "pi/4" -> Whole(1)

Camera(pos, dir, up, fov) == [pos |-> pos, dir |-> dir, up |-> up, fov |-> fov]
CameraRight(c) == Normalize(Cross(c.dir, c.up))

Output(w, h, escape) == [width |-> w, height |-> h, escape |-> escape]
AspectRatio(o) == FDiv(Whole(o.width), Whole(o.height))

ScreenDown(c) == VScale(VNeg(c.up), Tan(c.fov))
ScreenRight(c, o) == VScale(VScale(CameraRight(c), Tan(c.fov)), AspectRatio(o))

\* ProjectIter::new: the cursor starts at the first pixel.
ProjectIterNew == [x |-> 0, y |-> 0]

\* The PixelRay built by ProjectIter::next for the cursor (x, y).
PixelRayAt(c, o, x, y) ==
    LET fx == FDiv(FAdd(Whole(x), Num(1, 2)), Whole(o.width))
        fy == FDiv(FAdd(Whole(y), Num(1, 2)), Whole(o.height))
        d == VAdd(VAdd(c.dir, VScale(ScreenRight(c, o), FSub(fx, Num(1, 2)))),
                  VScale(ScreenDown(c), FSub(fy, Num(1, 2))))
    IN  [x |-> x, y |-> y, ray |-> Ray(c.pos, Normalize(d))]

\* The cursor after yielding (x, y): x advances and wraps into the next row.
ProjectIterAdvance(o, it) ==
    IF it.x + 1 >= o.width THEN [x |-> 0, y |-> it.y + 1]
    ELSE [x |-> it.x + 1, y |-> it.y]

\* The end test off by one: a row past the last one is yielded.
ProjectIterNextOffByOne(c, o, it) ==
    IF it.y > o.height THEN [item |-> None, it |-> it]
    ELSE [item |-> Some(PixelRayAt(c, o, it.x, it.y)), it |-> ProjectIterAdvance(o, it)]

\* ProjectIter::next: [item, it], the returned Option and the cursor afterwards.
ProjectIterNext(c, o, it) ==
    IF it.y >= o.height THEN [item |-> None, it |-> it]
    ELSE [item |-> Some(PixelRayAt(c, o, it.x, it.y)), it |-> ProjectIterAdvance(o, it)]

\* ---------------------------------------------------------- object.rs
Sphere(center, radius) == [type |-> "Sphere", center |-> center, radius |-> radius]
MetaBall(material_ref, center, power) ==
    [material_ref |-> material_ref, center |-> center, power |-> power]
MetaBalls(balls, threshold) ==
    [type |-> "MetaBalls", balls |-> balls, threshold |-> threshold]
Object(material_ref, shape) == [material_ref |-> material_ref, shape |-> shape]
Inter(object_ref, tt, point, normal) ==
    [object_ref |-> object_ref, t |-> tt, point |-> point, normal |-> normal]

\* A comparison that lets NaN through: !(t >= max_t).
ThenSomeNotAbove(tt, max_t) == IF FGe(tt, max_t) THEN None ELSE Some(tt)

\* (t < max_t).then_some(t)
ThenSomeBelow(tt, max_t) == IF FLt(tt, max_t) THEN Some(tt) ELSE None

\* Sphere::intersect_in
SphereIntersectIn(sp, r, max_t) ==
    LET oc == VSub(r.pos, sp.center)
        a == LengthSquared(r.dir)
        b == FMul(Whole(2), Dot(oc, r.dir))
        c == FSub(LengthSquared(oc), FMul(sp.radius, sp.radius))
        discriminant == FSub(FMul(b, b), FMul(FMul(Whole(4), a), c))
        t1 == FDiv(FSub(FNeg(b), FSqrt(discriminant)), FMul(Whole(2), a))
        t2 == FDiv(FAdd(FNeg(b), FSqrt(discriminant)), FMul(Whole(2), a))
    IN  IF FLt(discriminant, Zero) THEN None
        ELSE IF FGt(t1, Zero) THEN ThenSomeBelow(t1, max_t)
        ELSE ThenSomeBelow(t2, max_t)

\* Sphere::normal_at
SphereNormalAt(sp, point) == Normalize(VSub(point, sp.center))

\* MetaBall::strength_at
StrengthAt(ball, point) == FDiv(ball.power, Length(VSub(point, ball.center)))

\* MetaBall::force_at
BallForceAt(ball, point) ==
    LET diff == VSub(ball.center, point)
    IN  VScale(Normalize(diff), FDiv(ball.power, Length(diff)))

RECURSIVE SumPower(_, _)
\* balls.iter().map(|ball| ball.power).sum() over the first n balls
SumPower(balls, n) ==
    IF n = 0 THEN Zero ELSE FAdd(SumPower(balls, n - 1), balls[n].power)

RECURSIVE SumStrength(_, _, _)
SumStrength(balls, point, n) ==
    IF n = 0 THEN Zero
    ELSE FAdd(SumStrength(balls, point, n - 1), StrengthAt(balls[n], point))

RECURSIVE SumForce(_, _, _)
SumForce(balls, point, n) ==
    IF n = 0 THEN VZero
    ELSE VAdd(SumForce(balls, point, n - 1), BallForceAt(balls[n], point))

\* MetaBalls::force_at
ForceAt(mb, point) == SumStrength(mb.balls, point, Len(mb.balls))

\* MetaBalls::normal_at
MetaBallsNormalAt(mb, point) ==
    VNeg(Normalize(SumForce(mb.balls, point, Len(mb.balls))))

\* Shape::normal_at
NormalAt(shape, point) ==
    IF shape.type = "Sphere" THEN SphereNormalAt(shape, point)
    ELSE MetaBallsNormalAt(shape, point)

\* The hit tolerance of the march.
Tolerance == Num(1, 1000)

\* The march's loop test: while t < max_t
MarchContinues(tt, max_t) == FLt(tt, max_t)

\* The march's hit test at distance tt.
MarchHits(mb, r, tt) ==
    FLt(FAbs(FSub(ForceAt(mb, VAdd(r.pos, VScale(r.dir, tt))), mb.threshold)), Tolerance)

\* The march's step: t += point_dist - threshold_dist
MarchAdvanced(mb, r, tt) ==
    LET power == SumPower(mb.balls, Len(mb.balls))
        force == ForceAt(mb, VAdd(r.pos, VScale(r.dir, tt)))
        point_dist == FDiv(power, force)
        threshold_dist == FDiv(power, mb.threshold)
    IN  FAdd(tt, FSub(point_dist, threshold_dist))

\* f32::partial_cmp(l, r) is None
Incomparable(l, r) == IsNaN(l) \/ IsNaN(r)

\* min_by confused with max_by: the accumulator is replaced when it is Less.
MaxByStep(acc, inter) ==
    IF ~acc.some THEN [panic |-> FALSE, best |-> Some(inter)]
    ELSE IF Incomparable(acc.val.t, inter.t) THEN [panic |-> TRUE, best |-> acc]
    ELSE IF FLt(acc.val.t, inter.t) THEN [panic |-> FALSE, best |-> Some(inter)]
    ELSE [panic |-> FALSE, best |-> acc]

\* One step of min_by over the Inters produced so far: the accumulator is
\* replaced only when it compares Greater; [panic, best].
MinByStep(acc, inter) ==
    IF ~acc.some THEN [panic |-> FALSE, best |-> Some(inter)]
    ELSE IF Incomparable(acc.val.t, inter.t) THEN [panic |-> TRUE, best |-> acc]
    ELSE IF FGt(acc.val.t, inter.t) THEN [panic |-> FALSE, best |-> Some(inter)]
    ELSE [panic |-> FALSE, best |-> acc]

\* The closure of filter_map followed by the min_by step, for object idx+1
\* whose intersect_in returned r.
Fold(r) ==
    LET object == objects[idx + 1]
        point == RayAt(ray, r.val)
        m == MinByStep(best, Inter(idx, r.val, point, NormalAt(object.shape, point)))
    IN  /\ results' = Append(results, r)
        /\ idx' = idx + 1
        /\ IF r.some
           THEN /\ best' = m.best
                /\ pc' = IF m.panic THEN "panic" ELSE "scan"
           ELSE /\ best' = best
                /\ pc' = "scan"

\* Objects::intersect reaches a Sphere.
ScanSphere ==
    /\ pc = "scan"
    /\ idx < Len(objects)
    /\ objects[idx + 1].shape.type = "Sphere"
    /\ Fold(SphereIntersectIn(objects[idx + 1].shape, ray, maxT))
    /\ UNCHANGED <<objects, ray, maxT, t, ret>>
    /\ UNCHANGED projVars
    /\ UNCHANGED shadeVars
    /\ UNCHANGED hdriVars
    /\ UNCHANGED renderVars

\* Objects::intersect reaches a MetaBalls: the march starts at t = 0.
MarchStart ==
    /\ pc = "scan"
    /\ idx < Len(objects)
    /\ objects[idx + 1].shape.type = "MetaBalls"
    /\ pc' = "march"
    /\ t' = Zero
    /\ UNCHANGED <<objects, ray, maxT, idx, best, results, ret>>
    /\ UNCHANGED projVars
    /\ UNCHANGED shadeVars
    /\ UNCHANGED hdriVars
    /\ UNCHANGED renderVars

\* The loop test fails: intersect_in returns None.
MarchExit ==
    /\ pc = "march"
    /\ ~MarchContinues(t, maxT)
    /\ Fold(None)
    /\ UNCHANGED <<objects, ray, maxT, t, ret>>
    /\ UNCHANGED projVars
    /\ UNCHANGED shadeVars
    /\ UNCHANGED hdriVars
    /\ UNCHANGED renderVars

\* The field is within the tolerance of the threshold: Some(t).
MarchHit ==
    /\ pc = "march"
    /\ MarchContinues(t, maxT)
    /\ MarchHits(objects[idx + 1].shape, ray, t)
    /\ Fold(Some(t))
    /\ UNCHANGED <<objects, ray, maxT, t, ret>>
    /\ UNCHANGED projVars
    /\ UNCHANGED shadeVars
    /\ UNCHANGED hdriVars
    /\ UNCHANGED renderVars

\* One iteration of the loop that does not return.
MarchAdvance ==
    /\ pc = "march"
    /\ MarchContinues(t, maxT)
    /\ ~MarchHits(objects[idx + 1].shape, ray, t)
    /\ t' = MarchAdvanced(objects[idx + 1].shape, ray, t)
    /\ UNCHANGED <<pc, objects, ray, maxT, idx, best, results, ret>>
    /\ UNCHANGED projVars
    /\ UNCHANGED shadeVars
    /\ UNCHANGED hdriVars
    /\ UNCHANGED renderVars

\* Objects::intersect returns min_by's result.
ScanReturn ==
    /\ pc = "scan"
    /\ idx = Len(objects)
    /\ ret' = best
    /\ pc' = "returned"
    /\ UNCHANGED <<objects, ray, maxT, idx, best, results, t>>
    /\ UNCHANGED projVars
    /\ UNCHANGED shadeVars
    /\ UNCHANGED hdriVars
    /\ UNCHANGED renderVars

\* No scan in progress.
ScanIdle ==
    /\ objects = <<>>
    /\ ray = Ray(VZero, VZero)
    /\ maxT = Zero
    /\ idx = 0
    /\ best = None
    /\ results = <<>>
    /\ t = Zero
    /\ ret = None

\* -------------------------------------------------------- material.rs
Simple(color) == [type |-> "Simple", color |-> color]
NormalMaterial == [type |-> "Normal"]
DEFAULT_MATERIAL == NormalMaterial

\* inter.normal.map(|c| 0.5 * (c + 1.0))
NormalColor(normal) ==
    <<FMul(Num(1, 2), FAdd(normal[1], Whole(1))),
      FMul(Num(1, 2), FAdd(normal[2], Whole(1))),
      FMul(Num(1, 2), FAdd(normal[3], Whole(1)))>>

\* Material::color_at
MaterialColorAt(m, inter, lighting) ==
    IF m.type = "Simple" THEN VMul(m.color, lighting.force)
    ELSE NormalColor(inter.normal)

\* Indexing that falls back to the default material instead of failing.
MaterialsGetOrDefault(ms, material_ref) ==
    IF material_ref < Len(ms) THEN [panic |-> FALSE, material |-> ms[material_ref + 1]]
    ELSE [panic |-> FALSE, material |-> DEFAULT_MATERIAL]

\* Materials::get: Vec indexing, which panics out of range.
MaterialsGet(ms, material_ref) ==
    IF material_ref < Len(ms) THEN [panic |-> FALSE, material |-> ms[material_ref + 1]]
    ELSE [panic |-> TRUE, material |-> DEFAULT_MATERIAL]

\* ----------------------------------------------- object.rs: colouring
\* An outcome of a color_at call: it panicked, or it returned an Option<Color>;
\* via records which arm produced the colour.
Panicked == [panic |-> TRUE, color |-> None, via |-> "panic"]
Returned(color, via) == [panic |-> FALSE, color |-> color, via |-> via]

\* MetaBall::color_at
BallColorAt(ball, ms, inter, lighting) ==
    IF ~ball.material_ref.some THEN Returned(None, "none")
    ELSE LET g == MaterialsGet(ms, ball.material_ref.val)
         IN  IF g.panic THEN Panicked
             ELSE Returned(Some(VScale(MaterialColorAt(g.material, inter, lighting),
                                       StrengthAt(ball, inter.point))), "ball")

\* The closure given to reduce.
ReduceColors(l, r) ==
    IF l.some /\ r.some THEN Some(VAdd(l.val, r.val))
    ELSE IF l.some THEN l ELSE r

RECURSIVE BallsReduce(_, _, _, _, _)
\* balls.iter().map(color_at).reduce(..) over the first n balls, n >= 1; the
\* balls are visited in order and the first panic ends the evaluation.
BallsReduce(balls, n, ms, inter, lighting) ==
    IF n = 1 THEN BallColorAt(balls[1], ms, inter, lighting)
    ELSE LET acc == BallsReduce(balls, n - 1, ms, inter, lighting)
             cur == BallColorAt(balls[n], ms, inter, lighting)
         IN  IF acc.panic \/ cur.panic THEN Panicked
             ELSE Returned(ReduceColors(acc.color, cur.color), "ball")

\* MetaBalls::color_at
MetaBallsColorAt(mb, ms, inter, lighting) ==
    IF Len(mb.balls) = 0 THEN Returned(None, "none")
    ELSE LET r == BallsReduce(mb.balls, Len(mb.balls), ms, inter, lighting)
         IN  IF r.panic THEN Panicked
             ELSE IF ~r.color.some THEN Returned(None, "none")
             ELSE Returned(Some(VDivS(r.color.val, ForceAt(mb, inter.point))), "shape")

\* Shape::color_at
ShapeColorAt(shape, ms, inter, lighting) ==
    IF shape.type = "Sphere" THEN Returned(None, "none")
    ELSE MetaBallsColorAt(shape, ms, inter, lighting)

\* The object's own material looked up before the shape is asked.
ObjectColorAtMaterialFirst(object, ms, inter, lighting) ==
    IF object.material_ref.some
    THEN LET g == MaterialsGet(ms, object.material_ref.val)
         IN  IF g.panic THEN Panicked
             ELSE Returned(Some(MaterialColorAt(g.material, inter, lighting)), "material")
    ELSE LET sc == ShapeColorAt(object.shape, ms, inter, lighting)
         IN  IF sc.panic THEN Panicked
             ELSE IF sc.color.some THEN sc
             ELSE Returned(Some(MaterialColorAt(DEFAULT_MATERIAL, inter, lighting)), "default")

\* Object::color_at: shape colour, or else the object's material, or else
\* the default material.
ObjectColorAt(object, ms, inter, lighting) ==
    LET sc == ShapeColorAt(object.shape, ms, inter, lighting)
    IN  IF sc.panic THEN Panicked
        ELSE IF sc.color.some THEN sc
        ELSE IF object.material_ref.some
        THEN LET g == MaterialsGet(ms, object.material_ref.val)
             IN  IF g.panic THEN Panicked
                 ELSE Returned(Some(MaterialColorAt(g.material, inter, lighting)),
                               "material")
        ELSE Returned(Some(MaterialColorAt(DEFAULT_MATERIAL, inter, lighting)), "default")

\* Objects::color_at
ObjectsColorAt(objs, ms, inter, lighting) ==
    ObjectColorAt(objs[inter.object_ref + 1], ms, inter, lighting)

\* ----------------------------------------------------------- light.rs
Ambient(intensity) == [type |-> "Ambient", intensity |-> intensity]
Point(pos, intensity) == [type |-> "Point", pos |-> pos, intensity |-> intensity]
Directional(dir, intensity) ==
    [type |-> "Directional", dir |-> dir, intensity |-> intensity]

\* f32::clamp(0.0, 1.0); NaN stays NaN.
Clamp01(x) ==
    IF FLt(x, Zero) THEN Zero ELSE IF FGt(x, Whole(1)) THEN Whole(1) ELSE x

\* Light::diffuse for the lights that hold no image.
Diffuse(light, r, inter) ==
    CASE light.type = "Ambient" -> light.intensity
      [] light.type = "Point" ->
            VScale(light.intensity,
                   Clamp01(Dot(inter.normal,
                               Normalize(VSub(light.pos, RayAt(r, inter.t))))))
      [] light.type = "Directional" ->
            VScale(light.intensity, Clamp01(Dot(inter.normal, light.dir)))

RECURSIVE SumLights(_, _, _, _)
SumLights(ls, r, inter, n) ==
    IF n = 0 THEN VZero
    ELSE VAdd(SumLights(ls, r, inter, n - 1), Diffuse(ls[n], r, inter))

\* Lights::lighting
Lighting(ls, r, inter) == [force |-> SumLights(ls, r, inter, Len(ls))]

\* ----------------------------------------------------- light.rs: Hdri
\* std::f32::consts::PI
PI == Num(31416, 10000)
\* sqrt(1/2), the component of the diagonal unit directions.
S2 == Num(7071, 10000)

\* f32::acos on the cosines of the directions drawn.
Acos(c) ==
    CASE c = Whole(1) -> Zero
      [] c = S2 -> FDiv(PI, Whole(4))
      [] c = Zero -> FDiv(PI, Whole(2))
      [] c = FNeg(S2) -> FDiv(FMul(Whole(3), PI), Whole(4))
      [] c = Whole(-1) -> PI

\* f32::atan2(z, x) on the directions drawn: one of z, x is zero or |z| = |x|.
Atan2(z, x) ==
    CASE z.v = 0 /\ x.v >= 0 -> Zero
      [] z.v = 0 /\ x.v < 0 -> PI
      [] z.v > 0 /\ x.v = 0 -> FDiv(PI, Whole(2))
      [] z.v < 0 /\ x.v = 0 -> FNeg(FDiv(PI, Whole(2)))
      [] z.v > 0 /\ x.v > 0 -> FDiv(PI, Whole(4))
      [] z.v > 0 /\ x.v < 0 -> FDiv(FMul(Whole(3), PI), Whole(4))
      [] z.v < 0 /\ x.v < 0 -> FNeg(FDiv(FMul(Whole(3), PI), Whole(4)))
      [] z.v < 0 /\ x.v > 0 -> FNeg(FDiv(PI, Whole(4)))

\* The texel Hdri::sample looks up for dir in an image of the given size.
SampleTexel(dir, img) ==
    LET theta == Acos(dir[2])
        phi == FAdd(Atan2(dir[3], dir[1]), PI)
        u == FDiv(phi, FMul(Whole(2), PI))
        v == FDiv(theta, PI)
    IN  [x |-> AsU32(FMul(u, Whole(img.width))),
         y |-> AsU32(FMul(FSub(Whole(1), v), Whole(img.height)))]

\* ImageBuffer::get_pixel accepts (x, y).
InBounds(xy, img) == xy.x < img.width /\ xy.y < img.height

\* A sample that reloads the image on every call.
NeedsLoadAlways(cache) == TRUE

\* self.image.borrow().is_none()
NeedsLoad(cache) == ~cache.some

\* The cache after the `if .. { self.load() }` of Hdri::sample, when the
\* file can be loaded.
AfterLoad(cache, onDisk) == IF NeedsLoad(cache) THEN onDisk ELSE cache

\* Hdri::sample, the load fails: File::open(..).expect("Open HDRI") panics.
HdriSampleLoadFails ==
    /\ pc = "hdri"
    /\ NeedsLoad(image)
    /\ ~file.some
    /\ loads' = loads + 1
    /\ samples' = samples + 1
    /\ pc' = "panic"
    /\ UNCHANGED <<file, image, texel>>
    /\ UNCHANGED <<projVars, scanVars, shadeVars, renderVars>>

\* Hdri::sample returns the colour of an in-bounds texel.
HdriSample(dir) ==
    /\ pc = "hdri"
    /\ NeedsLoad(image) => file.some
    /\ LET img == AfterLoad(image, file)
           xy == SampleTexel(dir, img.val)
       IN  /\ InBounds(xy, img.val)
           /\ image' = img
           /\ texel' = Some(xy)
    /\ loads' = IF NeedsLoad(image) THEN loads + 1 ELSE loads
    /\ samples' = samples + 1
    /\ UNCHANGED <<pc, file>>
    /\ UNCHANGED <<projVars, scanVars, shadeVars, renderVars>>

\* Hdri::sample, get_pixel panics on a texel outside the image.
HdriSampleOutOfBounds(dir) ==
    /\ pc = "hdri"
    /\ NeedsLoad(image) => file.some
    /\ LET img == AfterLoad(image, file)
           xy == SampleTexel(dir, img.val)
       IN  /\ ~InBounds(xy, img.val)
           /\ image' = img
           /\ texel' = Some(xy)
    /\ loads' = IF NeedsLoad(image) THEN loads + 1 ELSE loads
    /\ samples' = samples + 1
    /\ pc' = "panic"
    /\ UNCHANGED file
    /\ UNCHANGED <<projVars, scanVars, shadeVars, renderVars>>

\* No Hdri light in use.
HdriIdle ==
    /\ file = None
    /\ image = None
    /\ loads = 0
    /\ samples = 0
    /\ texel = None

\* No shading in progress.
ShadeIdle ==
    /\ materials = <<>>
    /\ lights = <<>>
    /\ shaded = Returned(None, "none")

\* ----------------------------------------------------------- render.rs
NoInterPixel == [type |-> "NoInter"]
InterPixel(inter, color) == [type |-> "Inter", inter |-> inter, color |-> color]

\* No render in progress.
RenderIdle ==
    /\ pixels = <<>>
    /\ traced = <<>>

\* The map closure is entered for the next pixel ray: Objects::intersect
\* starts its scan with max_t = out.escape.
RenderNext ==
    /\ pc = "render"
    /\ LET r == ProjectIterNext(cam, out, iter)
       IN  /\ r.item.some
           /\ iter' = r.it
           /\ returned' = Append(returned, r.item)
           /\ ray' = r.item.val.ray
    /\ maxT' = out.escape
    /\ idx' = 0
    /\ best' = None
    /\ results' = <<>>
    /\ pc' = "scan"
    /\ UNCHANGED <<cam, out, objects, t, ret>>
    /\ UNCHANGED <<shadeVars, hdriVars, renderVars>>

\* filter_map in place of map: a ray that hits nothing leaves no entry.
RenderSkipNoInter ==
    /\ pc = "returned"
    /\ ~ret.some
    /\ pc' = "render"
    /\ UNCHANGED <<projVars, scanVars, shadeVars, hdriVars, renderVars>>

\* The closure returns Pixel::NoInter.
RenderNoInter ==
    /\ pc = "returned"
    /\ ~ret.some
    /\ pixels' = Append(pixels, NoInterPixel)
    /\ traced' = Append(traced, [ray |-> ray, results |-> results])
    /\ pc' = "render"
    /\ UNCHANGED <<projVars, scanVars, shadeVars, hdriVars>>

\* The closure lights and shades the hit and returns Pixel::Inter, unless
\* shading panics.
RenderInter ==
    /\ pc = "returned"
    /\ ret.some
    /\ shaded' = ObjectsColorAt(objects, materials, ret.val, Lighting(lights, ray, ret.val))
    /\ IF shaded'.panic
       THEN /\ pc' = "panic"
            /\ UNCHANGED renderVars
       ELSE /\ pc' = "render"
            /\ pixels' = Append(pixels, InterPixel(ret.val, shaded'.color.val))
            /\ traced' = Append(traced, [ray |-> ray, results |-> results])
    /\ UNCHANGED <<materials, lights>>
    /\ UNCHANGED <<projVars, scanVars, hdriVars>>

\* The iterator is exhausted: collect() returns the Vec.
RenderCollect ==
    /\ pc = "render"
    /\ LET r == ProjectIterNext(cam, out, iter)
       IN  /\ ~r.item.some
           /\ iter' = r.it
           /\ returned' = Append(returned, r.item)
    /\ pc' = "done"
    /\ UNCHANGED <<cam, out>>
    /\ UNCHANGED <<scanVars, shadeVars, hdriVars, renderVars>>

\* -------------------------------------------- projection on its own
CameraSet ==
    {Camera(W3(0, 0, -3), W3(0, 0, 1), W3(0, 1, 0), f) : f \in {"atan(1/2)", "pi/4"}}

Escape == Whole(5)

InitProject ==
    /\ pc = "project"
    /\ cam \in CameraSet
    /\ \E w \in 1..MaxWidth, h \in 1..MaxHeight : out = Output(w, h, Escape)
    /\ iter = ProjectIterNew
    /\ returned = <<>>
    /\ ScanIdle
    /\ ShadeIdle
    /\ HdriIdle
    /\ RenderIdle

\* One call of next() that yields a pixel ray.
ProjectYield ==
    /\ pc = "project"
    /\ LET r == ProjectIterNext(cam, out, iter)
       IN  /\ r.item.some
           /\ iter' = r.it
           /\ returned' = Append(returned, r.item)
    /\ UNCHANGED <<pc, cam, out>>
    /\ UNCHANGED scanVars
    /\ UNCHANGED shadeVars
    /\ UNCHANGED hdriVars
    /\ UNCHANGED renderVars

\* One call of next() on the exhausted iterator.
ProjectExhausted ==
    /\ pc = "project"
    /\ Len(returned) < out.width * out.height + MaxNone
    /\ LET r == ProjectIterNext(cam, out, iter)
       IN  /\ ~r.item.some
           /\ iter' = r.it
           /\ returned' = Append(returned, r.item)
    /\ UNCHANGED <<pc, cam, out>>
    /\ UNCHANGED scanVars
    /\ UNCHANGED shadeVars
    /\ UNCHANGED hdriVars
    /\ UNCHANGED renderVars

NextProject == ProjectYield \/ ProjectExhausted

SpecProject == InitProject /\ [][NextProject]_vars

\* C2: a fresh ProjectIter yields exactly width*height PixelRays, the k-th
\* (from 0) being pixel (k mod width, k div width), and then None forever.
C2_RowMajorThenNone ==
    pc = "project" =>
        \A i \in 1..Len(returned) :
            IF i <= out.width * out.height
            THEN /\ returned[i].some
                 /\ returned[i].val.x = (i - 1) % out.width
                 /\ returned[i].val.y = (i - 1) \div out.width
            ELSE ~returned[i].some

C2_Witness ==
    /\ pc = "project"
    /\ out.width >= 2
    /\ out.height >= 2
    /\ Len(returned) = out.width * out.height + MaxNone

\* ------------------------------------- Objects::intersect on its own
\* Longest object list and longest ball list drawn.
MaxObjects == 2
MaxBalls == 2

SphereSet ==
    {Sphere(W3(0, 0, 3), Whole(1)), Sphere(W3(0, 0, -3), Whole(1)),
     Sphere(W3(0, 2, 3), Whole(1)), Sphere(<<Zero, Zero, NaN>>, Whole(1))}

\* The balls the lists are cut from: one ahead of the ray origin, two behind.
BallList ==
    <<MetaBall(None, W3(0, 0, 2), Whole(1)), MetaBall(None, W3(0, 0, -2), Whole(2)),
      MetaBall(None, W3(0, 0, -2), Whole(2))>>

SeqsUpTo(S, n) == UNION {[1..k -> S] : k \in 0..n}

\* The contiguous runs of at most n elements of the sequence s.
RunsUpTo(s, n) ==
    {r \in {SubSeq(s, i, j) : i \in 1..Len(s), j \in 0..Len(s)} : Len(r) <= n}

MetaBallsSet ==
    {MetaBalls(bs, Whole(1)) : bs \in RunsUpTo(BallList, MaxBalls)}
    \cup {MetaBalls(<<MetaBall(None, W3(0, 0, 2), Whole(1))>>, NaN)}

ShapeSet == SphereSet \cup MetaBallsSet

\* The calls drawn: a unit ray along +z with two escape distances, and a
\* degenerate ray of zero direction.
CallSet ==
    {[ray |-> Ray(VZero, W3(0, 0, 1)), max_t |-> Whole(2)],
     [ray |-> Ray(VZero, W3(0, 0, 1)), max_t |-> Whole(5)],
     [ray |-> Ray(VZero, VZero), max_t |-> Whole(5)]}

InitIntersect ==
    /\ pc = "scan"
    /\ cam = Camera(VZero, VZero, VZero, "pi/4")
    /\ out = Output(0, 0, Zero)
    /\ iter = ProjectIterNew
    /\ returned = <<>>
    /\ objects \in SeqsUpTo({Object(None, sh) : sh \in ShapeSet}, MaxObjects)
    /\ \E c \in CallSet : ray = c.ray /\ maxT = c.max_t
    /\ idx = 0
    /\ best = None
    /\ results = <<>>
    /\ t = Zero
    /\ ret = None
    /\ ShadeIdle
    /\ HdriIdle
    /\ RenderIdle

NextIntersect ==
    \/ ScanSphere
    \/ MarchStart
    \/ MarchExit
    \/ MarchHit
    \/ MarchAdvance
    \/ ScanReturn

SpecIntersect == InitIntersect /\ [][NextIntersect]_vars

\* C1: whenever intersect_in returns Some(t), 0 < t < max_t.
C1_HitInRange ==
    \A i \in 1..Len(results) :
        results[i].some => FLt(Zero, results[i].val) /\ FLt(results[i].val, maxT)

\* C3: an iteration of the march that does not report a hit advances t by a
\* positive step; in particular t never decreases.
C3_MarchNeverDecreases == [][pc = "march" /\ pc' = "march" => ~FLt(t', t)]_vars

\* C5: Objects::intersect scans every object; it returns None iff every
\* intersect_in returned None, and otherwise the Inter whose t is the minimum
\* of the reported hits, object_ref being the index of an object reporting it.
C5_NearestHit ==
    pc = "returned" =>
        /\ Len(results) = Len(objects)
        /\ ret.some <=> \E i \in 1..Len(results) : results[i].some
        /\ ret.some =>
            /\ ret.val.object_ref + 1 \in 1..Len(results)
            /\ results[ret.val.object_ref + 1] = Some(ret.val.t)
            /\ \A i \in 1..Len(results) :
                   results[i].some => ~FLt(results[i].val, ret.val.t)

C5_Witness ==
    /\ pc = "returned"
    /\ Len(results) = 2
    /\ results[1].some
    /\ results[2].some
    /\ FLt(results[2].val, results[1].val)
    /\ ret.val.object_ref = 1

\* C10: no intersect_in returns Some(NaN), and the nearest-hit selection
\* never meets incomparable floats.
C10_NoNaNHit ==
    /\ pc # "panic"
    /\ \A i \in 1..Len(results) : results[i].some => ~IsNaN(results[i].val)

\* A sphere with a NaN centre (NaN discriminant and roots) reported None next
\* to an object reporting a real hit.
C10_Witness ==
    /\ pc = "returned"
    /\ ret.some
    /\ \E i \in 1..Len(objects) :
           /\ objects[i].shape.type = "Sphere"
           /\ IsNaN(objects[i].shape.center[3])
           /\ ~results[i].some

\* --------------------------------------- Objects::color_at on its own
\* Longest material list drawn; references range over 0..MaxMaterials, so
\* every list meets a reference past its end.
MaxMaterials == 2

MaterialList ==
    <<Simple(<<Whole(1), Num(1, 2), Zero>>), NormalMaterial,
      Simple(<<Num(1, 4), Num(1, 4), Whole(1)>>), NormalMaterial>>

MaterialsSet == {SubSeq(MaterialList, 1, k) : k \in 0..MaxMaterials}

RefSet == {None} \cup {Some(r) : r \in 0..MaxMaterials}

ShadeBallSet == {MetaBall(r, W3(0, 0, 2), Whole(1)) : r \in RefSet}

ShadeObjectSet ==
    {Object(r, Sphere(W3(0, 0, 3), Whole(1))) : r \in RefSet}
    \cup {Object(r, MetaBalls(bs, Whole(1))) :
             r \in RefSet, bs \in SeqsUpTo(ShadeBallSet, MaxBalls)}

InterSet ==
    {Inter(0, Whole(1), W3(0, 0, 1), W3(0, 0, -1)),
     Inter(0, Whole(2), W3(0, 1, 2), W3(0, 1, 0))}

LightsSet ==
    {<<>>,
     <<Ambient(<<Whole(1), Whole(1), Whole(1)>>)>>,
     <<Ambient(<<Num(1, 4), Num(1, 4), Num(1, 4)>>),
       Directional(W3(0, 0, -1), <<Num(1, 2), Num(1, 2), Num(1, 2)>>),
       Point(W3(0, 3, 0), <<Num(1, 4), Zero, Zero>>)>>}

InitShade ==
    /\ pc = "shade"
    /\ cam = Camera(VZero, VZero, VZero, "pi/4")
    /\ out = Output(0, 0, Zero)
    /\ iter = ProjectIterNew
    /\ returned = <<>>
    /\ \E o \in ShadeObjectSet : objects = <<o>>
    /\ ray = Ray(VZero, W3(0, 0, 1))
    /\ maxT = Escape
    /\ idx = 1
    /\ \E i \in InterSet : best = Some(i) /\ ret = Some(i) /\ results = <<Some(i.t)>>
    /\ t = Zero
    /\ materials \in MaterialsSet
    /\ lights \in LightsSet
    /\ shaded = Returned(None, "none")
    /\ HdriIdle
    /\ RenderIdle

\* scene.lights.lighting(..) and scene.objects.color_at(..) for the hit.
Shade ==
    /\ pc = "shade"
    /\ shaded' = ObjectsColorAt(objects, materials, ret.val, Lighting(lights, ray, ret.val))
    /\ pc' = IF shaded'.panic THEN "panic" ELSE "shaded"
    /\ UNCHANGED <<materials, lights>>
    /\ UNCHANGED projVars
    /\ UNCHANGED scanVars
    /\ UNCHANGED hdriVars
    /\ UNCHANGED renderVars

NextShade == Shade

SpecShade == InitShade /\ [][NextShade]_vars

\* The balls that carry a material reference, in list order.
WithMaterial(shape) ==
    IF shape.type = "MetaBalls"
    THEN SelectSeq(shape.balls, LAMBDA b : b.material_ref.some)
    ELSE <<>>

RECURSIVE SumContributions(_, _, _, _, _)
\* Sum of material colour times strength over the first n of the balls bs.
SumContributions(bs, n, ms, inter, lighting) ==
    LET c == VScale(MaterialColorAt(ms[bs[n].material_ref.val + 1], inter, lighting),
                    StrengthAt(bs[n], inter.point))
    IN  IF n = 1 THEN c
        ELSE VAdd(SumContributions(bs, n - 1, ms, inter, lighting), c)

Composite(shape, ms, inter, lighting) ==
    VDivS(SumContributions(WithMaterial(shape), Len(WithMaterial(shape)), ms, inter, lighting),
          ForceAt(shape, inter.point))

\* The references the resolution order consults for an object.
Consulted(object) ==
    IF Len(WithMaterial(object.shape)) > 0
    THEN {WithMaterial(object.shape)[i].material_ref.val :
            i \in 1..Len(WithMaterial(object.shape))}
    ELSE IF object.material_ref.some THEN {object.material_ref.val}
    ELSE {}

\* C6: the colour is the metaball composite when some ball carries a material
\* (the object's material_ref is then not consulted: a failure there can only
\* come from a ball's reference); otherwise the object's material when it has
\* a reference; otherwise the default Normal material's colour.
C6_ResolutionOrder ==
    LET o == objects[1]
        li == Lighting(lights, ray, ret.val)
    IN  /\ pc = "shaded" =>
             IF Len(WithMaterial(o.shape)) > 0
             THEN /\ shaded.via = "shape"
                  /\ shaded.color = Some(Composite(o.shape, materials, ret.val, li))
             ELSE IF o.material_ref.some
             THEN /\ shaded.via = "material"
                  /\ shaded.color =
                        Some(MaterialColorAt(materials[o.material_ref.val + 1], ret.val, li))
             ELSE /\ shaded.via = "default"
                  /\ shaded.color = Some(NormalColor(ret.val.normal))
        /\ (pc = "panic" /\ Len(WithMaterial(o.shape)) > 0) =>
             \E i \in 1..Len(WithMaterial(o.shape)) :
                 WithMaterial(o.shape)[i].material_ref.val >= Len(materials)

\* A MetaBalls, one ball with and one without a material, shaded although
\* the object's own reference is out of range.
C6_Witness ==
    /\ pc = "shaded"
    /\ objects[1].shape.type = "MetaBalls"
    /\ Len(objects[1].shape.balls) = 2
    /\ Len(WithMaterial(objects[1].shape)) = 1
    /\ objects[1].material_ref.some
    /\ objects[1].material_ref.val >= Len(materials)

\* C8: shading aborts exactly when a reference it consults is out of range;
\* the default material is used only when no reference is present.
C8_FailFast ==
    pc \in {"shaded", "panic"} =>
        /\ pc = "panic" <=> \E r \in Consulted(objects[1]) : r >= Len(materials)
        /\ (pc = "shaded" /\ shaded.via = "default") =>
              /\ ~objects[1].material_ref.some
              /\ Len(WithMaterial(objects[1].shape)) = 0

C8_Witness ==
    /\ pc = "panic"
    /\ objects[1].shape.type = "Sphere"
    /\ objects[1].material_ref.some
    /\ objects[1].material_ref.val >= Len(materials)
    /\ Len(materials) > 0

\* ------------------------------------------------- Hdri on its own
\* Largest image side drawn, and the number of sample calls followed.
MaxImage == 3
MaxSamples == 3

\* Unit directions along the axes and along the diagonals of the xz and xy
\* planes.
DirSet ==
    {W3(1, 0, 0), W3(-1, 0, 0), W3(0, 1, 0), W3(0, -1, 0), W3(0, 0, 1), W3(0, 0, -1)}
    \cup {<<a, Zero, b>> : a \in {S2, FNeg(S2)}, b \in {S2, FNeg(S2)}}
    \cup {<<a, b, Zero>> : a \in {S2, FNeg(S2)}, b \in {S2, FNeg(S2)}}

InitHdri ==
    /\ pc = "hdri"
    /\ cam = Camera(VZero, VZero, VZero, "pi/4")
    /\ out = Output(0, 0, Zero)
    /\ iter = ProjectIterNew
    /\ returned = <<>>
    /\ ScanIdle
    /\ ShadeIdle
    /\ file \in {None} \cup
                {Some([width |-> w, height |-> h]) : w \in 1..MaxImage, h \in 1..MaxImage}
    /\ image = None
    /\ loads = 0
    /\ samples = 0
    /\ texel = None
    /\ RenderIdle

SampleOk == samples < MaxSamples /\ \E dir \in DirSet : HdriSample(dir)

SampleOutOfBounds == samples < MaxSamples /\ \E dir \in DirSet : HdriSampleOutOfBounds(dir)

NextHdri == HdriSampleLoadFails \/ SampleOk \/ SampleOutOfBounds

SpecHdri == InitHdri /\ [][NextHdri]_vars

\* C7: the image is loaded at most once: the first sample loads it, later
\* samples reuse it, and a populated cache is never cleared or replaced.
C7_LoadedOnce ==
    /\ [](loads <= 1 /\ (image.some => loads = 1) /\ (loads = 0 => samples = 0))
    /\ [][image.some => image' = image /\ loads' = loads]_vars

C7_Witness ==
    /\ pc = "hdri"
    /\ samples >= 2
    /\ loads = 1
    /\ image.some

\* C9: the texel Hdri::sample looks up is inside the image.
C9_TexelInBounds ==
    texel.some => InBounds(texel.val, image.val)

\* ------------------------------------------------------ whole render
White == <<Whole(1), Whole(1), Whole(1)>>

SceneSet ==
    {[objects |-> <<>>, materials |-> <<>>, lights |-> <<>>],
     [objects |-> <<Object(Some(0), Sphere(W3(0, 0, 0), Whole(1)))>>,
      materials |-> <<Simple(White)>>,
      lights |-> <<Ambient(White)>>],
     [objects |-> <<Object(None, Sphere(W3(0, 0, 1), Whole(1))),
                    Object(None, MetaBalls(<<MetaBall(Some(0), W3(0, 0, 0), Whole(1))>>,
                                           Whole(1)))>>,
      materials |-> <<Simple(White)>>,
      lights |-> <<Ambient(White), Directional(W3(0, 0, -1), White)>>],
     [objects |-> <<Object(Some(1), Sphere(W3(0, 0, 0), Whole(1)))>>,
      materials |-> <<Simple(White)>>,
      lights |-> <<>>]}

InitRender ==
    /\ pc = "render"
    /\ cam \in CameraSet
    /\ \E w \in 1..MaxWidth, h \in 1..MaxHeight : out = Output(w, h, Escape)
    /\ iter = ProjectIterNew
    /\ returned = <<>>
    /\ \E sc \in SceneSet :
           /\ objects = sc.objects
           /\ materials = sc.materials
           /\ lights = sc.lights
    /\ ray = Ray(VZero, VZero)
    /\ maxT = Escape
    /\ idx = 0
    /\ best = None
    /\ results = <<>>
    /\ t = Zero
    /\ ret = None
    /\ shaded = Returned(None, "none")
    /\ HdriIdle
    /\ RenderIdle

NextRender ==
    \/ RenderNext
    \/ ScanSphere
    \/ MarchStart
    \/ MarchExit
    \/ MarchHit
    \/ MarchAdvance
    \/ ScanReturn
    \/ RenderNoInter
    \/ RenderInter
    \/ RenderCollect

SpecRender == InitRender /\ [][NextRender]_vars

\* C4: render returns width*height pixels; the entry at index x + y*width is
\* the result for the ray of pixel (x, y), and it is NoInter exactly when no
\* object reported a hit for that ray, and otherwise holds the nearest hit
\* and its shaded colour.
C4_PixelPerRay ==
    pc = "done" =>
    /\ Len(pixels) = out.width * out.height
    /\ Len(traced) = Len(pixels)
    /\ \A i \in 1..Len(pixels) :
          LET x == (i - 1) % out.width
              y == (i - 1) \div out.width
              hits == {j \in 1..Len(traced[i].results) : traced[i].results[j].some}
          IN  /\ y < out.height
              /\ traced[i].ray = PixelRayAt(cam, out, x, y).ray
              /\ Len(traced[i].results) = Len(objects)
              /\ pixels[i].type = "NoInter" <=> hits = {}
              /\ pixels[i].type = "Inter" =>
                    /\ pixels[i].inter.object_ref + 1 \in hits
                    /\ pixels[i].inter.t = traced[i].results[pixels[i].inter.object_ref + 1].val
                    /\ \A j \in hits : ~FLt(traced[i].results[j].val, pixels[i].inter.t)
                    /\ pixels[i].inter.point = RayAt(traced[i].ray, pixels[i].inter.t)
                    /\ pixels[i].color =
                          ObjectsColorAt(objects, materials, pixels[i].inter,
                                         Lighting(lights, traced[i].ray, pixels[i].inter)).color.val

C4_Witness ==
    /\ pc = "done"
    /\ out.width >= 2
    /\ out.height >= 2
    /\ \E i, j \in 1..Len(pixels) : pixels[i].type = "NoInter" /\ pixels[j].type = "Inter"

====
